---- MODULE Spec2Model ----
(***************************************************************************)
(* Model of the chunked Q&A generation pipeline of SimpleRAG               *)
(* (src/rag_core.py) and of the threads of the Flask service that run it   *)
(* on the one global session (src/api.py, src/app.py).                     *)
(*                                                                         *)
(* Texts are sequences of one-character strings.  Positions in a text are  *)
(* 0-based as in Python: the character at position p of s is s[p + 1].     *)
(***************************************************************************)
EXTENDS Integers, Sequences, FiniteSets, TLC

\* ------------------------------------------------------------------ bounds
MaxTextLen == 5
MaxChars == 3
MaxOverlap == 3
MaxChunksArg == 2
MaxLines == 4

\* --------------------------------------------------------------- constants
DEFAULT_MAX_CHUNKS == 100
DEFAULT_CHUNK_RETRIES == 2
MAX_RETRY_WAIT == 10
DEFAULT_API_CALL_DELAY_MS == 500
PROMPT_DOC_CAP == 8000
MIN_QUESTIONS == 1
MAX_QUESTIONS == 20
MIN_CHUNK_SIZE == 1000
MAX_CHUNK_SIZE == 16000
DEFAULT_CHUNK_SIZE == 8000
DEFAULT_OVERLAP == 200

Alphabet == {"a", ".", " "}
Whitespace == {" ", "\n", "\t", "\r"}

Min(a, b) == IF a < b THEN a ELSE b
Max(a, b) == IF a > b THEN a ELSE b
SetMin(S) == CHOOSE x \in S : \A y \in S : x <= y
SetMax(S) == CHOOSE x \in S : \A y \in S : x >= y

Texts(n) == UNION {[1..k -> Alphabet] : k \in 0..n}

\* s[a:b] for 0 <= a <= b <= len(s)
Slice(s, a, b) == SubSeq(s, a + 1, b)

\* str.strip(): drop leading and trailing whitespace
Strip(s) ==
  LET keep == {p \in 1..Len(s) : s[p] \notin Whitespace}
  IN  IF keep = {} THEN <<>> ELSE SubSeq(s, SetMin(keep), SetMax(keep))

\* str.rfind(ch, a, b): highest position in [a, b) holding ch, else -1
RFind(s, ch, a, b) ==
  LET hits == {p \in a..(b - 1) : s[p + 1] = ch}
  IN  IF hits = {} THEN -1 ELSE SetMax(hits)

\* ------------------------------------------------------------ chunk_text
\* lines 161-167: the end of the window that starts at cursor s
ChunkEnd(txt, s, mc) ==
  LET e0 == Min(s + mc, Len(txt))
  IN  IF e0 < Len(txt)
      THEN LET last_period == RFind(txt, ".", s, e0)
           IN  IF last_period > s THEN last_period + 1 ELSE e0
      ELSE e0

\* mutants of line 180
ChunkAdvance_NoFloor(s, e, ov) == Max(e - ov, s)
ChunkAdvance_Gap(s, e, ov) == Max(e + ov, s + 1)
ChunkAdvance_WideOverlap(s, e, ov) == Max(e - ov - 1, s + 1)

\* line 180: the next cursor
ChunkAdvance(s, e, ov) == Max(e - ov, s + 1)

\* line 159: the loop condition (brk records the break of line 176)
ChunkCond(txt, mx, st) ==
  ~st.brk /\ st.start < Len(txt) /\ Len(st.chunks) < mx

\* mutant of lines 170-172: the chunk is appended even when it is empty
ChunkIter_KeepEmpty(txt, mc, ov, st) ==
  LET e == ChunkEnd(txt, st.start, mc)
      chunk == Strip(Slice(txt, st.start, e))
  IN  [start   |-> IF e >= Len(txt) THEN st.start ELSE ChunkAdvance(st.start, e, ov),
       chunks  |-> Append(st.chunks, chunk),
       windows |-> Append(st.windows, [start |-> st.start, end |-> e, kept |-> TRUE]),
       brk     |-> e >= Len(txt)]

\* lines 161-180: one iteration of the loop.  windows is the history of the
\* windows [start, end) cut so far, with whether the chunk was appended.
ChunkIter(txt, mc, ov, st) ==
  LET e == ChunkEnd(txt, st.start, mc)
      chunk == Strip(Slice(txt, st.start, e))
      kept == chunk # <<>>
  IN  [start   |-> IF e >= Len(txt) THEN st.start ELSE ChunkAdvance(st.start, e, ov),
       chunks  |-> IF kept THEN Append(st.chunks, chunk) ELSE st.chunks,
       windows |-> Append(st.windows, [start |-> st.start, end |-> e, kept |-> kept]),
       brk     |-> e >= Len(txt)]

ChunkStart == [start |-> 0, chunks |-> <<>>, windows |-> <<>>, brk |-> FALSE]

RECURSIVE ChunkLoop(_, _, _, _, _)
ChunkLoop(txt, mc, ov, mx, st) ==
  IF ChunkCond(txt, mx, st)
  THEN ChunkLoop(txt, mc, ov, mx, ChunkIter(txt, mc, ov, st))
  ELSE st

\* chunk_text(text, max_chars, overlap, max_chunks)
ChunkText(txt, mc, ov, mx) == ChunkLoop(txt, mc, ov, mx, ChunkStart).chunks

\* ------------------------------------------------------- _parse_qa_pairs
\* position of the first occurrence of ch in s (1-based), 0 when absent
Find(s, ch) ==
  LET hits == {p \in 1..Len(s) : s[p] = ch}
  IN  IF hits = {} THEN 0 ELSE SetMin(hits)

\* str.split(sep)
RECURSIVE Split(_, _)
Split(s, sep) ==
  LET p == Find(s, sep)
  IN  IF p = 0 THEN <<s>>
      ELSE <<SubSeq(s, 1, p - 1)>> \o Split(SubSeq(s, p + 1, Len(s)), sep)

\* line.split(":", 1)[1].strip()
AfterColon(line) == Strip(SubSeq(line, Find(line, ":") + 1, Len(line)))

StartsWith(line, ch) == Len(line) >= 1 /\ line[1] = ch

\* mutant of line 137: an answer line does not replace an answer already held
ParseLine_KeepFirstAnswer(st, raw_line) ==
  LET line == Strip(raw_line)
  IN  IF StartsWith(line, "Q") /\ Find(line, ":") # 0
      THEN [qa_pairs  |-> IF st.current_q # <<>> /\ st.current_a # <<>>
                          THEN Append(st.qa_pairs,
                                 [question |-> st.current_q, answer |-> st.current_a])
                          ELSE st.qa_pairs,
            current_q |-> AfterColon(line),
            current_a |-> <<>>]
      ELSE IF StartsWith(line, "A") /\ Find(line, ":") # 0
      THEN [st EXCEPT !.current_a = IF @ = <<>> THEN AfterColon(line) ELSE @]
      ELSE st

\* lines 130-137: one line of the scan.  None and "" are both falsy and
\* only the truth value of current_q and current_a is ever read, so an
\* absent slot is the empty text.
ParseLine(st, raw_line) ==
  LET line == Strip(raw_line)
  IN  IF StartsWith(line, "Q") /\ Find(line, ":") # 0
      THEN [qa_pairs  |-> IF st.current_q # <<>> /\ st.current_a # <<>>
                          THEN Append(st.qa_pairs,
                                 [question |-> st.current_q, answer |-> st.current_a])
                          ELSE st.qa_pairs,
            current_q |-> AfterColon(line),
            current_a |-> <<>>]
      ELSE IF StartsWith(line, "A") /\ Find(line, ":") # 0
      THEN [st EXCEPT !.current_a = AfterColon(line)]
      ELSE st

RECURSIVE ParseScan(_, _, _)
ParseScan(lines, k, st) ==
  IF k > Len(lines) THEN st
  ELSE ParseScan(lines, k + 1, ParseLine(st, lines[k]))

\* mutant of line 139: a pending question is flushed without its answer
ParseQaPairs_FlushDangling(raw) ==
  LET lines == Split(Strip(raw), "\n")
      st == ParseScan(lines, 1,
              [qa_pairs |-> <<>>, current_q |-> <<>>, current_a |-> <<>>])
  IN  IF st.current_q # <<>>
      THEN Append(st.qa_pairs, [question |-> st.current_q, answer |-> st.current_a])
      ELSE st.qa_pairs

\* _parse_qa_pairs(qa_text)
ParseQaPairs(qa_text) ==
  LET lines == Split(Strip(qa_text), "\n")
      st == ParseScan(lines, 1,
              [qa_pairs |-> <<>>, current_q |-> <<>>, current_a |-> <<>>])
  IN  IF st.current_q # <<>> /\ st.current_a # <<>>
      THEN Append(st.qa_pairs, [question |-> st.current_q, answer |-> st.current_a])
      ELSE st.qa_pairs

VARIABLES
  text, max_chars, overlap, max_chunks,  \* the arguments of a chunk_text call
  ck,              \* its loop state: start, chunks, windows cut, break taken
  cpc,             \* its position: "idle", "loop", "done"
  warned,          \* whether line 183 printed the max_chunks warning
  loaded,          \* the text extract_text_from_pdf loaded into the session
  document_text,   \* SimpleRAG.document_text of the one global session
  collab,          \* what the generation collaborator may answer or fail with
  run,             \* per caller thread: the frame of generate_qa_pairs_chunked
  rag_instance,    \* api.rag_instance: "None" or "SimpleRAG"
  qa_text,         \* the argument of a _parse_qa_pairs call
  parsed,          \* its result
  ppc              \* its position: "idle", "call", "done"

cvars == <<text, max_chars, overlap, max_chunks, ck, cpc, warned>>
rvars == <<loaded, document_text, collab, run, rag_instance>>
pvars == <<qa_text, parsed, ppc>>
vars == <<text, max_chars, overlap, max_chunks, ck, cpc, warned,
          loaded, document_text, collab, run, rag_instance, qa_text, parsed, ppc>>

\* no chunk_text call under observation
ChunkIdle ==
  /\ text = <<>> /\ max_chars = 1 /\ overlap = 0 /\ max_chunks = 1
  /\ ck = ChunkStart /\ cpc = "idle" /\ warned = FALSE

\* no _parse_qa_pairs call under observation
ParseIdle ==
  /\ qa_text = <<>> /\ parsed = <<>> /\ ppc = "idle"

\* a session with no document and no caller
SessionIdle ==
  /\ loaded = <<>> /\ document_text = <<>> /\ run = <<>>
  /\ rag_instance = "None"
  /\ collab = [responses |-> {}, errors |-> {}]

ChunkInit ==
  /\ text \in Texts(MaxTextLen)
  /\ max_chars \in 1..MaxChars
  /\ overlap \in 0..MaxOverlap
  /\ max_chunks \in 1..MaxChunksArg
  /\ ck = ChunkStart
  /\ cpc = "loop"
  /\ warned = FALSE
  /\ SessionIdle
  /\ ParseIdle

ChunkStep ==
  /\ cpc = "loop"
  /\ ChunkCond(text, max_chunks, ck)
  /\ ck' = ChunkIter(text, max_chars, overlap, ck)
  /\ UNCHANGED <<text, max_chars, overlap, max_chunks, cpc, warned, rvars, pvars>>

\* lines 182-185: the warning and the return
ChunkReturn ==
  /\ cpc = "loop"
  /\ ~ChunkCond(text, max_chunks, ck)
  /\ cpc' = "done"
  /\ warned' = (Len(ck.chunks) >= max_chunks)
  /\ UNCHANGED <<text, max_chars, overlap, max_chunks, ck, rvars, pvars>>

ChunkNext == ChunkStep \/ ChunkReturn

ChunkSpec == ChunkInit /\ [][ChunkNext]_vars
FairChunkSpec == ChunkSpec /\ WF_vars(ChunkNext)

\* ------------------------------------------------- claims about chunk_text
KeptWindows == SelectSeq(ck.windows, LAMBDA w : w.kept)

\* C7: chunk_text always terminates, and every loop iteration that does not
\* end the loop leaves the cursor strictly greater than it found it, for
\* every text, max_chars > 0, max_chunks >= 1 and overlap >= 0, also when
\* overlap >= max_chars or overlap exceeds the snapped chunk length.
C7_ForwardProgress ==
  /\ [][(ChunkStep /\ ~ck'.brk) => ck'.start > ck.start]_vars
  /\ <>(cpc = "done")

C7_Witness ==
  /\ cpc = "done"
  /\ overlap >= max_chars
  /\ Len(ck.windows) >= 3
  /\ \E k \in 1..Len(ck.windows) : overlap > ck.windows[k].end - ck.windows[k].start

\* C8: for 0 <= overlap < max_chars the windows cut by chunk_text start at
\* position 0, leave no gap between consecutive windows, and the last one
\* ends at len(text) unless the chunk count reached max_chunks.
C8_WindowsCover ==
  (cpc = "done" /\ overlap < max_chars) =>
    LET w == ck.windows
    IN  /\ w # <<>> => w[1].start = 0
        /\ \A k \in 1..(Len(w) - 1) : w[k + 1].start <= w[k].end
        /\ Len(ck.chunks) < max_chunks =>
              IF text = <<>> THEN w = <<>>
              ELSE w # <<>> /\ w[Len(w)].end = Len(text)

C8_Witness ==
  /\ cpc = "done"
  /\ overlap < max_chars
  /\ overlap > 0
  /\ Len(ck.chunks) < max_chunks
  /\ Len(ck.windows) >= 3
  /\ ck.windows[2].start < ck.windows[1].end
  /\ ck.windows[Len(ck.windows)].end = Len(text)

\* C9 as stated: every non-empty text shorter than max_chars yields exactly
\* one chunk, and the empty text yields none.
C9_ShortTextOneChunk ==
  cpc = "done" =>
    /\ (text # <<>> /\ Len(text) < max_chars) => Len(ck.chunks) = 1
    /\ text = <<>> => ck.chunks = <<>>

\* C9 amended: a text shorter than max_chars that holds a non-whitespace
\* character yields exactly one chunk, its trimmed contents; an empty or
\* whitespace-only text yields the empty sequence.
C9_ShortTextAmended ==
  (cpc = "done" /\ Len(text) < max_chars) =>
    IF Strip(text) # <<>>
    THEN ck.chunks = <<Strip(text)>>
    ELSE ck.chunks = <<>>

C9_Witness ==
  /\ cpc = "done"
  /\ Len(text) < max_chars
  /\ Strip(text) # <<>>
  /\ Strip(text) # text
  /\ Len(ck.chunks) = 1

\* C10: every chunk is non-empty, is the trimmed contents of one window of
\* the text, is at most max_chars long, and the windows of two consecutive
\* chunks overlap by at most overlap characters.
C10_ChunksWellFormed ==
  LET kw == KeptWindows
  IN  /\ Len(kw) = Len(ck.chunks)
      /\ \A k \in 1..Len(ck.chunks) :
            /\ ck.chunks[k] # <<>>
            /\ 0 <= kw[k].start /\ kw[k].start < kw[k].end /\ kw[k].end <= Len(text)
            /\ ck.chunks[k] = Strip(Slice(text, kw[k].start, kw[k].end))
            /\ Len(ck.chunks[k]) <= max_chars
      /\ \A k \in 1..(Len(kw) - 1) : kw[k].end - kw[k + 1].start <= overlap

C10_Witness ==
  /\ cpc = "done"
  /\ Len(ck.chunks) >= 2
  /\ overlap > 0
  /\ KeptWindows[1].end - KeptWindows[2].start = overlap
  /\ \E k \in 1..Len(ck.chunks) :
        Len(ck.chunks[k]) < KeptWindows[k].end - KeptWindows[k].start

\* --------------------------------------------- a call of _parse_qa_pairs
\* lines the model may put on a line of its answer
LineFrags ==
  { <<"Q", ":", "x">>,
    <<"Q", "1", ":", " ", "y", ":", "x", " ">>,
    <<"Q", ":", " ">>,
    <<"Q", "x">>,
    <<"A", ":", "y">>,
    <<" ", "A", ":", " ", "x">>,
    <<"A", ":">>,
    <<"x", ":", "y">> }

RECURSIVE Join(_)
Join(ls) ==
  IF ls = <<>> THEN <<>>
  ELSE IF Len(ls) = 1 THEN ls[1]
  ELSE ls[1] \o <<"\n">> \o Join(Tail(ls))

QaTexts == {Join(ls) : ls \in UNION {[1..n -> LineFrags] : n \in 0..MaxLines}}

ParseInit ==
  /\ qa_text \in QaTexts
  /\ parsed = <<>>
  /\ ppc = "call"
  /\ ChunkIdle
  /\ SessionIdle

ParseCall ==
  /\ ppc = "call"
  /\ parsed' = ParseQaPairs(qa_text)
  /\ ppc' = "done"
  /\ UNCHANGED <<qa_text, cvars, rvars>>

ParseNext == ParseCall

ParseSpec == ParseInit /\ [][ParseNext]_vars

\* --------------------------------------------- claims about _parse_qa_pairs
\* the markers of the input, read off its lines
InLines == Split(qa_text, "\n")
HasColon(l) == \E p \in 1..Len(l) : l[p] = ":"
IsQuestionLine(l) == LET b == Strip(l) IN b # <<>> /\ b[1] = "Q" /\ HasColon(b)
IsAnswerLine(l) == LET b == Strip(l) IN b # <<>> /\ b[1] = "A" /\ HasColon(b)
MarkerText(l) ==
  LET b == Strip(l)
      c == SetMin({p \in 1..Len(b) : b[p] = ":"})
  IN  Strip(SubSeq(b, c + 1, Len(b)))
QuestionAt == {k \in 1..Len(InLines) : IsQuestionLine(InLines[k])}
NextQuestion(k) == SetMin({j \in QuestionAt : j > k} \cup {Len(InLines) + 1})
AnswersTo(k) == {j \in (k + 1)..(NextQuestion(k) - 1) : IsAnswerLine(InLines[j])}
HasTextAnswer(k) == \E j \in AnswersTo(k) : MarkerText(InLines[j]) # <<>>
LastAnswer(k) == MarkerText(InLines[SetMax(AnswersTo(k))])

\* the records of the question lines in K from line k on, in order
RECURSIVE RecordsFrom(_, _)
RecordsFrom(k, K) ==
  IF k > Len(InLines) THEN <<>>
  ELSE IF k \in K
  THEN <<[question |-> MarkerText(InLines[k]), answer |-> LastAnswer(k)]>>
         \o RecordsFrom(k + 1, K)
  ELSE RecordsFrom(k + 1, K)

\* C11: a question line with no answer line of non-blank text before the
\* next question line (or the end) yields no record, and every record has
\* a question and an answer that are non-empty after trimming.
C11_UnansweredDropped ==
  ppc = "done" =>
    /\ \A n \in 1..Len(parsed) :
          /\ Strip(parsed[n].question) # <<>>
          /\ Strip(parsed[n].answer) # <<>>
          /\ \E k \in QuestionAt :
                /\ HasTextAnswer(k)
                /\ parsed[n].question = MarkerText(InLines[k])
                /\ \E j \in AnswersTo(k) : parsed[n].answer = MarkerText(InLines[j])
    /\ Len(parsed) <= Cardinality({k \in QuestionAt : HasTextAnswer(k)})

C11_Witness ==
  /\ ppc = "done"
  /\ Len(parsed) = 1
  /\ Cardinality(QuestionAt) = 2
  /\ AnswersTo(SetMax(QuestionAt)) = {}
  /\ MarkerText(InLines[SetMax(QuestionAt)]) # <<>>

\* C12 as stated: one record per question line that has an answer line
\* before the next question line, with the question's text and the text of
\* the last such answer line.
C12_OneRecordPerAnsweredQuestion ==
  ppc = "done" => parsed = RecordsFrom(1, {k \in QuestionAt : AnswersTo(k) # {}})

\* C12 amended: one record, in order, per question line whose text is not
\* blank and whose last answer line before the next question line has
\* non-blank text; the record holds these two texts.
C12_OneRecordPerCompletedQuestion ==
  ppc = "done" =>
    parsed = RecordsFrom(1, {k \in QuestionAt : /\ AnswersTo(k) # {}
                                                 /\ MarkerText(InLines[k]) # <<>>
                                                 /\ LastAnswer(k) # <<>>})

C12_Witness ==
  /\ ppc = "done"
  /\ Len(parsed) = 1
  /\ \E k \in QuestionAt :
        /\ Cardinality(AnswersTo(k)) = 2
        /\ \E j \in AnswersTo(k) : MarkerText(InLines[j]) \notin {<<>>, LastAnswer(k)}
  /\ \E k \in 1..Len(InLines) : ~IsQuestionLine(InLines[k]) /\ ~IsAnswerLine(InLines[k])

\* ----------------------------------------------- generate_qa_pairs_chunked
\* documents a session may hold: none, whitespace only, one chunk that
\* trimming shortens, three distinct chunks
RunDocs ==
  { <<>>,
    <<" ">>,
    <<" ", "a">>,
    <<"a", ".", "b", ".", "c">> }

\* raw texts the generation collaborator may answer with
Responses ==
  { <<>>,
    <<"Q", ":", "x", "\n", "A", ":", "y">>,
    <<"Q", ":", "y", "\n", "A", ":", "x">> }

\* errors the generation collaborator may fail with
GenErrors == {"timeout", "rate_limit"}

\* self.document_text[:8000]
Prefix(s, n) == SubSeq(s, 1, Min(n, Len(s)))

\* the frame of a call that has not started
NewRun(cs, ov) ==
  [pc |-> "idle", chunk_size |-> cs, overlap |-> ov,
   chunks |-> <<>>, i |-> 0, original_text |-> <<>>, retry_count |-> 0,
   all_qa |-> <<>>, errors |-> <<>>, broke |-> FALSE,
   prompt_doc |-> <<>>,   \* the document text put into the current prompt
   calls |-> <<>>,        \* history of the generation calls made
   waits |-> <<>>,        \* history of the time.sleep calls made
   ret |-> <<>>, exc |-> "none"]

\* <<chunk_size, overlap>> of a call
RunArgs == {<<2, 0>>, <<3, 1>>}

RunInit(T, docs, args, co) ==
  /\ collab = co
  /\ loaded \in docs
  /\ document_text = loaded
  /\ run \in [T -> {NewRun(a[1], a[2]) : a \in args}]
  /\ rag_instance = "SimpleRAG"
  /\ ChunkIdle
  /\ ParseIdle

Set(t, r) == run' = [run EXCEPT ![t] = r]

\* lines 198-209: the guard, the chunking, the empty accumulators.  The two
\* reads of document_text (198, 202) are one step: a text that is non-empty
\* at 198 is non-empty at 202, every writer stores a non-empty text.
Begin(t) ==
  /\ run[t].pc = "idle"
  /\ IF document_text = <<>>
     THEN Set(t, [run[t] EXCEPT !.pc = "raised", !.exc = "ValueError"])
     ELSE LET cs == ChunkText(document_text, run[t].chunk_size,
                              run[t].overlap, DEFAULT_MAX_CHUNKS)
          IN  Set(t, [run[t] EXCEPT !.chunks = cs, !.i = 1,
                        !.pc = IF cs = <<>> THEN "return" ELSE "save"])
  /\ UNCHANGED <<cvars, pvars, rag_instance, loaded, collab, document_text>>

\* line 216
SaveOriginal(t) ==
  /\ run[t].pc = "save"
  /\ Set(t, [run[t] EXCEPT !.original_text = document_text, !.pc = "install"])
  /\ UNCHANGED <<cvars, pvars, rag_instance, loaded, collab, document_text>>

\* lines 217-222
InstallChunk(t) ==
  /\ run[t].pc = "install"
  /\ document_text' = run[t].chunks[run[t].i]
  /\ Set(t, [run[t] EXCEPT !.retry_count = 0, !.pc = "prompt"])
  /\ UNCHANGED <<cvars, pvars, rag_instance, loaded, collab>>

Throttle == [kind |-> "throttle", ms |-> DEFAULT_API_CALL_DELAY_MS]
\* mutant of line 238: the exponent starts at 0
Backoff_FromZero(n) == [kind |-> "backoff", ms |-> 1000 * Min(2 ^ (n - 1), MAX_RETRY_WAIT)]

Backoff(n) == [kind |-> "backoff", ms |-> 1000 * Min(2 ^ n, MAX_RETRY_WAIT)]

\* mutant of lines 234-235: every failed attempt is entered in the ledger
OnException_LedgerEveryFailure(r, e) ==
  LET n == r.retry_count + 1
      error_msg == [chunk |-> r.i, attempt |-> n,
                    of |-> DEFAULT_CHUNK_RETRIES + 1, message |-> e]
  IN  [r EXCEPT !.retry_count = n,
                !.broke = FALSE,
                !.errors = Append(@, error_msg),
                !.waits = IF n > DEFAULT_CHUNK_RETRIES
                          THEN @ ELSE Append(@, Backoff(n)),
                !.pc = "restore"]

\* mutant of line 234: the budget is taken as spent one attempt early
OnException_OffByOne(r, e) ==
  LET n == r.retry_count + 1
      error_msg == [chunk |-> r.i, attempt |-> n,
                    of |-> DEFAULT_CHUNK_RETRIES + 1, message |-> e]
  IN  [r EXCEPT !.retry_count = IF n >= DEFAULT_CHUNK_RETRIES
                                THEN DEFAULT_CHUNK_RETRIES + 1 ELSE n,
                !.broke = FALSE,
                !.errors = IF n >= DEFAULT_CHUNK_RETRIES
                           THEN Append(@, error_msg) ELSE @,
                !.waits = IF n >= DEFAULT_CHUNK_RETRIES
                          THEN @ ELSE Append(@, Backoff(n)),
                !.pc = "restore"]

\* lines 229-240: the except clause, for error e of the current attempt
OnException(r, e) ==
  LET n == r.retry_count + 1
      error_msg == [chunk |-> r.i, attempt |-> n,
                    of |-> DEFAULT_CHUNK_RETRIES + 1, message |-> e]
  IN  [r EXCEPT !.retry_count = n,
                !.broke = FALSE,
                !.errors = IF n > DEFAULT_CHUNK_RETRIES
                           THEN Append(@, error_msg) ELSE @,
                !.waits = IF n > DEFAULT_CHUNK_RETRIES
                          THEN @ ELSE Append(@, Backoff(n)),
                !.pc = "restore"]

\* lines 224, 77-97: generate_qa_pairs reads the active document text and
\* builds the prompt; with no text it raises before any call or sleep
BuildPrompt(t) ==
  /\ run[t].pc = "prompt"
  /\ IF document_text = <<>>
     THEN Set(t, OnException(run[t], "ValueError"))
     ELSE Set(t, [run[t] EXCEPT !.prompt_doc = Prefix(document_text, PROMPT_DOC_CAP),
                                !.pc = "call"])
  /\ UNCHANGED <<cvars, pvars, rag_instance, loaded, collab, document_text>>

\* mutant of lines 224-227: a response without records counts as a failure
GenerateOk_EmptyIsFailure(t) ==
  /\ run[t].pc = "call"
  /\ \E raw \in collab.responses :
       LET qa == ParseQaPairs(raw)
           called == [run[t] EXCEPT
                 !.calls = Append(@, [chunk |-> run[t].i, doc |-> run[t].prompt_doc,
                                      ok |-> TRUE, qa |-> qa, error |-> "none"]),
                 !.waits = Append(@, Throttle)]
       IN  IF qa = <<>>
           THEN Set(t, OnException(called, "empty"))
           ELSE Set(t, [called EXCEPT !.all_qa = @ \o qa, !.broke = TRUE,
                                      !.pc = "restore"])
  /\ UNCHANGED <<cvars, pvars, rag_instance, loaded, collab, document_text>>

\* lines 100-112, 225-227: the collaborator answers raw; parse, throttle,
\* extend, break
GenerateOk(t) ==
  /\ run[t].pc = "call"
  /\ \E raw \in collab.responses :
       LET qa == ParseQaPairs(raw)
       IN  Set(t, [run[t] EXCEPT
                 !.calls = Append(@, [chunk |-> run[t].i, doc |-> run[t].prompt_doc,
                                      ok |-> TRUE, qa |-> qa, error |-> "none"]),
                 !.waits = Append(@, Throttle),
                 !.all_qa = @ \o qa,
                 !.broke = TRUE,
                 !.pc = "restore"])
  /\ UNCHANGED <<cvars, pvars, rag_instance, loaded, collab, document_text>>

\* mutant of lines 110-112: the throttling sleep is skipped when the call
\* fails
GenerateFail_NoThrottle(t) ==
  /\ run[t].pc = "call"
  /\ \E e \in collab.errors :
       Set(t, OnException(
                [run[t] EXCEPT
                   !.calls = Append(@, [chunk |-> run[t].i, doc |-> run[t].prompt_doc,
                                        ok |-> FALSE, qa |-> <<>>, error |-> e])],
                e))
  /\ UNCHANGED <<cvars, pvars, rag_instance, loaded, collab, document_text>>

\* lines 100-112, 229-240: the collaborator fails with e; the finally of
\* generate_qa_pairs sleeps, then the except clause of the retry loop runs
GenerateFail(t) ==
  /\ run[t].pc = "call"
  /\ \E e \in collab.errors :
       Set(t, OnException(
                [run[t] EXCEPT
                   !.calls = Append(@, [chunk |-> run[t].i, doc |-> run[t].prompt_doc,
                                        ok |-> FALSE, qa |-> <<>>, error |-> e]),
                   !.waits = Append(@, Throttle)],
                e))
  /\ UNCHANGED <<cvars, pvars, rag_instance, loaded, collab, document_text>>

\* mutant of lines 222-243: an exhausted chunk ends the run
AfterFinally_AbortOnExhaustion(r) ==
  IF r.broke
  THEN IF r.i < Len(r.chunks)
       THEN [r EXCEPT !.i = @ + 1, !.pc = "save"]
       ELSE [r EXCEPT !.pc = "return"]
  ELSE IF r.retry_count > DEFAULT_CHUNK_RETRIES
  THEN [r EXCEPT !.pc = "return"]
  ELSE [r EXCEPT !.pc = "prompt"]

\* mutant of line 222: the loop admits one attempt beyond the budget
AfterFinally_OneMoreRetry(r) ==
  IF r.broke \/ r.retry_count > DEFAULT_CHUNK_RETRIES + 1
  THEN IF r.i < Len(r.chunks)
       THEN [r EXCEPT !.i = @ + 1, !.pc = "save"]
       ELSE [r EXCEPT !.pc = "return"]
  ELSE [r EXCEPT !.pc = "prompt"]

\* where control goes after the finally clause: out of the while loop on a
\* break or an exhausted budget (line 222), then on to the next chunk or
\* out of the for loop (line 212)
AfterFinally(r) ==
  IF r.broke \/ r.retry_count > DEFAULT_CHUNK_RETRIES
  THEN IF r.i < Len(r.chunks)
       THEN [r EXCEPT !.i = @ + 1, !.pc = "save"]
       ELSE [r EXCEPT !.pc = "return"]
  ELSE [r EXCEPT !.pc = "prompt"]

\* mutant of lines 241-243: the text is restored on the success path only
RestoreOriginal_OnSuccessOnly(t) ==
  /\ run[t].pc = "restore"
  /\ document_text' = IF run[t].broke THEN run[t].original_text ELSE document_text
  /\ Set(t, AfterFinally(run[t]))
  /\ UNCHANGED <<cvars, pvars, rag_instance, loaded, collab>>

\* lines 241-243: the finally clause of the retry loop
RestoreOriginal(t) ==
  /\ run[t].pc = "restore"
  /\ document_text' = run[t].original_text
  /\ Set(t, AfterFinally(run[t]))
  /\ UNCHANGED <<cvars, pvars, rag_instance, loaded, collab>>

\* mutant of line 249: the records of the last call are returned
ReturnValue_LastCallOnly(r) ==
  [all_qa |-> IF r.calls = <<>> THEN <<>> ELSE r.calls[Len(r.calls)].qa]

\* the value line 249 hands to the caller, by the name of what it holds
ReturnValue(r) == [all_qa |-> r.all_qa]

\* lines 245-249
Return(t) ==
  /\ run[t].pc = "return"
  /\ Set(t, [run[t] EXCEPT !.ret = ReturnValue(run[t]), !.pc = "done"])
  /\ UNCHANGED <<cvars, pvars, rag_instance, loaded, collab, document_text>>

\* one caller
Init == RunInit({1}, RunDocs, RunArgs, [responses |-> Responses, errors |-> GenErrors])

Next ==
  \/ \E t \in DOMAIN run : Begin(t)
  \/ \E t \in DOMAIN run : SaveOriginal(t)
  \/ \E t \in DOMAIN run : InstallChunk(t)
  \/ \E t \in DOMAIN run : BuildPrompt(t)
  \/ \E t \in DOMAIN run : GenerateOk(t)
  \/ \E t \in DOMAIN run : GenerateFail(t)
  \/ \E t \in DOMAIN run : RestoreOriginal(t)
  \/ \E t \in DOMAIN run : Return(t)

Spec == Init /\ [][Next]_vars
\* ------------------------------------------------------- the HTTP handlers
\* the frame of a request thread: the frame of the call it makes, the
\* endpoint and its questions parameter, and the response it sends
NewRequest(ep, q, cs, ov) ==
  [(NewRun(cs, ov) @@ [endpoint |-> ep, questions |-> q, resp |-> [status |-> 0]])
     EXCEPT !.pc = "request"]

Respond(t, resp) == Set(t, [run[t] EXCEPT !.resp = resp, !.pc = "responded"])

\* mutant of api.py line 125: overlap = chunk_size passes
ApiChunkedValidate_OverlapOffByOne(t) ==
  /\ run[t].pc = "request"
  /\ run[t].endpoint = "generate-qa-chunked"
  /\ IF rag_instance = "None"
     THEN Respond(t, [status |-> 500, error |-> "RAG system not initialized"])
     ELSE IF run[t].questions < MIN_QUESTIONS \/ run[t].questions > MAX_QUESTIONS
     THEN Respond(t, [status |-> 400, error |-> "questions_per_chunk"])
     ELSE IF run[t].chunk_size < MIN_CHUNK_SIZE \/ run[t].chunk_size > MAX_CHUNK_SIZE
     THEN Respond(t, [status |-> 400, error |-> "chunk_size"])
     ELSE IF run[t].overlap < 0 \/ run[t].overlap > run[t].chunk_size
     THEN Respond(t, [status |-> 400, error |-> "overlap"])
     ELSE Set(t, [run[t] EXCEPT !.pc = "idle"])
  /\ UNCHANGED <<cvars, pvars, rag_instance, loaded, collab, document_text>>

\* api.py lines 96-136: generate_qa_chunked up to the call of
\* generate_qa_pairs_chunked
ApiChunkedValidate(t) ==
  /\ run[t].pc = "request"
  /\ run[t].endpoint = "generate-qa-chunked"
  /\ IF rag_instance = "None"
     THEN Respond(t, [status |-> 500, error |-> "RAG system not initialized"])
     ELSE IF run[t].questions < MIN_QUESTIONS \/ run[t].questions > MAX_QUESTIONS
     THEN Respond(t, [status |-> 400, error |-> "questions_per_chunk"])
     ELSE IF run[t].chunk_size < MIN_CHUNK_SIZE \/ run[t].chunk_size > MAX_CHUNK_SIZE
     THEN Respond(t, [status |-> 400, error |-> "chunk_size"])
     ELSE IF run[t].overlap < 0 \/ run[t].overlap >= run[t].chunk_size
     THEN Respond(t, [status |-> 400, error |-> "overlap"])
     ELSE Set(t, [run[t] EXCEPT !.pc = "idle"])
  /\ UNCHANGED <<cvars, pvars, rag_instance, loaded, collab, document_text>>

\* the collaborator's timeout is taken to be a TimeoutError
IsTimeoutError(exc) == exc = "timeout"

\* api.py lines 140-152: the response of generate_qa_chunked
ApiChunkedRespond(t) ==
  /\ run[t].endpoint = "generate-qa-chunked"
  /\ run[t].pc \in {"done", "raised"}
  /\ IF run[t].pc = "done"
     THEN Respond(t, [status |-> 200, success |-> TRUE,
                      count |-> Len(run[t].ret.all_qa), qa_pairs |-> run[t].ret.all_qa])
     ELSE IF IsTimeoutError(run[t].exc)
     THEN Respond(t, [status |-> 504, error |-> run[t].exc])
     ELSE Respond(t, [status |-> 500, error |-> run[t].exc])
  /\ UNCHANGED <<cvars, pvars, rag_instance, loaded, collab, document_text>>

\* api.py lines 58-74: generate_qa up to the call of generate_qa_pairs
ApiQaValidate(t) ==
  /\ run[t].pc = "request"
  /\ run[t].endpoint = "generate-qa"
  /\ IF rag_instance = "None"
     THEN Respond(t, [status |-> 500, error |-> "RAG system not initialized"])
     ELSE IF run[t].questions < MIN_QUESTIONS \/ run[t].questions > MAX_QUESTIONS
     THEN Respond(t, [status |-> 400, error |-> "questions"])
     ELSE Set(t, [run[t] EXCEPT !.pc = "q_prompt"])
  /\ UNCHANGED <<cvars, pvars, rag_instance, loaded, collab, document_text>>

\* mutant of lines 77-78: no guard on the document text
QaPrompt_NoGuard(t) ==
  /\ run[t].pc = "q_prompt"
  /\ Set(t, [run[t] EXCEPT !.prompt_doc = Prefix(document_text, PROMPT_DOC_CAP),
                           !.pc = "q_call"])
  /\ UNCHANGED <<cvars, pvars, rag_instance, loaded, collab, document_text>>

\* lines 77-97, generate_qa_pairs called by the handler: guard and prompt
QaPrompt(t) ==
  /\ run[t].pc = "q_prompt"
  /\ IF document_text = <<>>
     THEN Set(t, [run[t] EXCEPT !.exc = "ValueError", !.pc = "raised"])
     ELSE Set(t, [run[t] EXCEPT !.prompt_doc = Prefix(document_text, PROMPT_DOC_CAP),
                                !.pc = "q_call"])
  /\ UNCHANGED <<cvars, pvars, rag_instance, loaded, collab, document_text>>

\* lines 99-112: the collaborator answers; parse, throttle, return
QaOk(t) ==
  /\ run[t].pc = "q_call"
  /\ \E raw \in collab.responses :
       LET qa == ParseQaPairs(raw)
       IN  Set(t, [run[t] EXCEPT
                 !.calls = Append(@, [chunk |-> 0, doc |-> run[t].prompt_doc,
                                      ok |-> TRUE, qa |-> qa, error |-> "none"]),
                 !.waits = Append(@, Throttle),
                 !.ret = [qa_pairs |-> qa],
                 !.pc = "done"])
  /\ UNCHANGED <<cvars, pvars, rag_instance, loaded, collab, document_text>>

\* lines 99-112: the collaborator fails; throttle, the error propagates
QaFail(t) ==
  /\ run[t].pc = "q_call"
  /\ \E e \in collab.errors :
       Set(t, [run[t] EXCEPT
             !.calls = Append(@, [chunk |-> 0, doc |-> run[t].prompt_doc,
                                  ok |-> FALSE, qa |-> <<>>, error |-> e]),
             !.waits = Append(@, Throttle),
             !.exc = e,
             !.pc = "raised"])
  /\ UNCHANGED <<cvars, pvars, rag_instance, loaded, collab, document_text>>

\* api.py lines 76-82: the response of generate_qa
ApiQaRespond(t) ==
  /\ run[t].endpoint = "generate-qa"
  /\ run[t].pc \in {"done", "raised"}
  /\ IF run[t].pc = "done"
     THEN Respond(t, [status |-> 200, success |-> TRUE,
                      count |-> Len(run[t].ret.qa_pairs), qa_pairs |-> run[t].ret.qa_pairs])
     ELSE Respond(t, [status |-> 500, error |-> run[t].exc])
  /\ UNCHANGED <<cvars, pvars, rag_instance, loaded, collab, document_text>>

\* requests a client may send: the edges of each parameter's range
ApiDocs == { <<>>, <<" ", "a">> }
QuestionArgs == {MIN_QUESTIONS - 1, MIN_QUESTIONS, MAX_QUESTIONS, MAX_QUESTIONS + 1}
ChunkSizeArgs == {MIN_CHUNK_SIZE - 1, MIN_CHUNK_SIZE, MAX_CHUNK_SIZE, MAX_CHUNK_SIZE + 1}
OverlapArgs == {-1, 0, MIN_CHUNK_SIZE - 1, MIN_CHUNK_SIZE, MAX_CHUNK_SIZE}
Requests ==
  {NewRequest("generate-qa-chunked", q, cs, ov) :
     q \in QuestionArgs, cs \in ChunkSizeArgs, ov \in OverlapArgs}
  \cup {NewRequest("generate-qa", q, DEFAULT_CHUNK_SIZE, DEFAULT_OVERLAP) : q \in QuestionArgs}

\* one request to the service; init_rag either set the instance and loaded
\* the document or did neither
ApiInit ==
  /\ rag_instance \in {"None", "SimpleRAG"}
  /\ loaded \in IF rag_instance = "None" THEN {<<>>} ELSE ApiDocs
  /\ document_text = loaded
  /\ collab = [responses |-> Responses, errors |-> GenErrors]
  /\ run \in [{1} -> Requests]
  /\ ChunkIdle
  /\ ParseIdle

ApiNext ==
  \/ Next
  \/ \E t \in DOMAIN run : ApiChunkedValidate(t)
  \/ \E t \in DOMAIN run : ApiChunkedRespond(t)
  \/ \E t \in DOMAIN run : ApiQaValidate(t)
  \/ \E t \in DOMAIN run : QaPrompt(t)
  \/ \E t \in DOMAIN run : QaOk(t)
  \/ \E t \in DOMAIN run : QaFail(t)
  \/ \E t \in DOMAIN run : ApiQaRespond(t)

ApiSpec == ApiInit /\ [][ApiNext]_vars

\* ------------------------------------------------ two concurrent requests
\* app.run(threaded=True) serves each request on its own thread, and every
\* handler calls the one rag_instance: two callers share document_text.
ConcDocs == { <<" ", "a">> }
ConcArgs == { <<2, 0>> }

ConcCollab ==
  [responses |-> {<<"Q", ":", "x", "\n", "A", ":", "y">>}, errors |-> {"timeout"}]

ConcInit == RunInit({1, 2}, ConcDocs, ConcArgs, ConcCollab)
ConcSpec == ConcInit /\ [][Next]_vars

\* C5: once both concurrent runs have completed, document_text is the
\* loaded document again.
C5_TextRestoredAfterBothRuns ==
  (\A t \in DOMAIN run : run[t].pc = "done") => document_text = loaded

\* ------------------------------------- claims about a single chunked run
CallsOf(r, k) == SelectSeq(r.calls, LAMBDA c : c.chunk = k)
Succeeded(r, k) == \E n \in 1..Len(r.calls) : r.calls[n].chunk = k /\ r.calls[n].ok
LedgerOf(r, k) == SelectSeq(r.errors, LAMBDA e : e.chunk = k)

RECURSIVE ConcatQa(_)
ConcatQa(cs) == IF cs = <<>> THEN <<>> ELSE Head(cs).qa \o ConcatQa(Tail(cs))

\* C1: whenever a run is between chunks (about to save for the next
\* chunk) or has left the loop, document_text is the loaded document,
\* whatever the attempts of the chunks before did.
C1_TextRestoredBetweenChunks ==
  \A t \in DOMAIN run :
    run[t].pc \in {"save", "install", "return", "done"} => document_text = loaded

C1_Witness ==
  \E t \in DOMAIN run :
    /\ run[t].pc = "save"
    /\ run[t].i = 3
    /\ Succeeded(run[t], 1)
    /\ ~Succeeded(run[t], 2)
    /\ run[t].chunks[2] # loaded
    /\ document_text = loaded

\* C2: every generation call made for chunk i, first attempt or retry, is
\* given chunk i's text as the document text of its prompt.
C2_EveryAttemptReadsItsChunk ==
  \A t \in DOMAIN run :
    \A n \in 1..Len(run[t].calls) :
      run[t].calls[n].doc = Prefix(run[t].chunks[run[t].calls[n].chunk], PROMPT_DOC_CAP)

\* C3: a finished run has attempted every chunk, in order, and returns the
\* records of the successful calls concatenated in chunk order; a chunk
\* without a successful call has exactly one ledger entry, a chunk with one
\* has none.
C3_ExhaustionDoesNotAbort ==
  \A t \in DOMAIN run :
    run[t].pc = "done" =>
      LET r == run[t]
      IN  /\ \A k \in 1..Len(r.chunks) : CallsOf(r, k) # <<>>
          /\ \A m, n \in 1..Len(r.calls) : m < n => r.calls[m].chunk <= r.calls[n].chunk
          /\ \A k \in 1..Len(r.chunks) :
               Len(SelectSeq(CallsOf(r, k), LAMBDA c : c.ok)) <= 1
          /\ r.ret.all_qa = ConcatQa(SelectSeq(r.calls, LAMBDA c : c.ok))
          /\ \A k \in 1..Len(r.chunks) :
               Len(LedgerOf(r, k)) = IF Succeeded(r, k) THEN 0 ELSE 1

C3_Witness ==
  \E t \in DOMAIN run :
    /\ run[t].pc = "done"
    /\ Len(run[t].chunks) = 3
    /\ Succeeded(run[t], 1) /\ ~Succeeded(run[t], 2) /\ Succeeded(run[t], 3)
    /\ Len(run[t].ret.all_qa) = 2
    /\ run[t].ret.all_qa[1] # run[t].ret.all_qa[2]
    /\ Len(run[t].errors) = 1 /\ run[t].errors[1].chunk = 2

\* C4: a chunk whose every attempt failed got exactly
\* DEFAULT_CHUNK_RETRIES + 1 generation calls, its ledger entry carries the
\* error of the last of them, no chunk gets more calls than that, and no
\* exception leaves the run of a loaded document.
C4_RetriesThenExhausted ==
  \A t \in DOMAIN run :
    LET r == run[t]
    IN  /\ \A k \in 1..Len(r.chunks) :
             Len(CallsOf(r, k)) <= DEFAULT_CHUNK_RETRIES + 1
        /\ \A k \in 1..Len(r.chunks) :
             (~Succeeded(r, k) /\ (k < r.i \/ r.pc \in {"return", "done"})) =>
               /\ Len(CallsOf(r, k)) = DEFAULT_CHUNK_RETRIES + 1
               /\ Len(LedgerOf(r, k)) = 1
               /\ LedgerOf(r, k)[1].attempt = DEFAULT_CHUNK_RETRIES + 1
               /\ LedgerOf(r, k)[1].message = CallsOf(r, k)[DEFAULT_CHUNK_RETRIES + 1].error
        /\ loaded # <<>> => (r.exc = "none" /\ r.pc # "raised")

C4_Witness ==
  \E t \in DOMAIN run :
    /\ run[t].pc = "done"
    /\ ~Succeeded(run[t], 1)
    /\ Len(CallsOf(run[t], 1)) = 3
    /\ CallsOf(run[t], 1)[1].error # CallsOf(run[t], 1)[3].error
    /\ run[t].errors[1].message = CallsOf(run[t], 1)[3].error
    /\ run[t].exc = "none"

InvalidRequest(r) ==
  \/ r.questions \notin MIN_QUESTIONS..MAX_QUESTIONS
  \/ /\ r.endpoint = "generate-qa-chunked"
     /\ \/ r.chunk_size \notin MIN_CHUNK_SIZE..MAX_CHUNK_SIZE
        \/ r.overlap < 0
        \/ r.overlap >= r.chunk_size

\* C13: with an initialized session, a request to either endpoint whose
\* parameters are out of range never makes a generation call, never waits
\* or retries, leaves document_text as loaded, and is answered with 400.
C13_InvalidRequestRejected ==
  \A t \in DOMAIN run :
    (rag_instance = "SimpleRAG" /\ InvalidRequest(run[t])) =>
      /\ run[t].pc \in {"request", "responded"}
      /\ run[t].calls = <<>>
      /\ run[t].waits = <<>>
      /\ run[t].retry_count = 0
      /\ document_text = loaded
      /\ run[t].pc = "responded" => run[t].resp.status = 400

C13_Witness ==
  \E t \in DOMAIN run :
    /\ rag_instance = "SimpleRAG"
    /\ loaded # <<>>
    /\ run[t].endpoint = "generate-qa-chunked"
    /\ run[t].questions = MAX_QUESTIONS
    /\ run[t].chunk_size = MIN_CHUNK_SIZE
    /\ run[t].overlap = run[t].chunk_size
    /\ run[t].pc = "responded"
    /\ run[t].resp.status = 400

\* C14 as stated: a chunked request during which the collaborator timed
\* out, the timeout being the error its chunk was given up with, is
\* answered with 504.
C14_TimeoutAnswers504 ==
  \A t \in DOMAIN run :
    ( /\ run[t].endpoint = "generate-qa-chunked"
      /\ run[t].pc = "responded"
      /\ \E n \in 1..Len(run[t].errors) : IsTimeoutError(run[t].errors[n].message) )
    => run[t].resp.status = 504

\* C15: with an empty document text a valid request to either endpoint
\* raises the no-document error before any generation call, wait or
\* retry, the text stays empty, and the endpoint answers 500.
C15_EmptyDocumentFailsAtOnce ==
  \A t \in DOMAIN run :
    (rag_instance = "SimpleRAG" /\ loaded = <<>> /\ ~InvalidRequest(run[t])) =>
      /\ run[t].pc \in {"request", "idle", "q_prompt", "raised", "responded"}
      /\ run[t].calls = <<>>
      /\ run[t].waits = <<>>
      /\ run[t].retry_count = 0
      /\ run[t].errors = <<>>
      /\ document_text = <<>>
      /\ run[t].pc = "raised" => run[t].exc = "ValueError"
      /\ run[t].pc = "responded" =>
           (run[t].resp.status = 500 /\ run[t].resp.error = "ValueError")

C15_Witness ==
  \E t \in DOMAIN run :
    /\ rag_instance = "SimpleRAG"
    /\ loaded = <<>>
    /\ run[t].endpoint = "generate-qa"
    /\ run[t].pc = "responded"
    /\ run[t].exc = "ValueError"
    /\ run[t].resp.status = 500

\* ------------------------------------------- claims on waits and outcomes
\* the number, among the calls of its chunk, of the n-th call of run r
AttemptNo(r, n) ==
  Cardinality({m \in 1..n : r.calls[m].chunk = r.calls[n].chunk})

\* whether the retry budget of its chunk is left after the failed n-th call
BudgetLeft(r, n) == AttemptNo(r, n) <= DEFAULT_CHUNK_RETRIES

\* the kinds of the waits the first n calls of r are followed by, when a
\* failed call is (failThrottle) or is not followed by the throttling delay
RECURSIVE WaitKinds(_, _, _)
WaitKinds(r, n, failThrottle) ==
  IF n = 0 THEN <<>>
  ELSE WaitKinds(r, n - 1, failThrottle)
       \o (IF r.calls[n].ok \/ failThrottle THEN <<"throttle">> ELSE <<>>)
       \o (IF ~r.calls[n].ok /\ BudgetLeft(r, n) THEN <<"backoff">> ELSE <<>>)

KindsOf(ws) == [k \in 1..Len(ws) |-> ws[k].kind]

\* C16 as stated: the waits of a chunked run are the throttling delay after
\* each successful call and the backoff sleep after each failed call that
\* leaves retry budget; a failed call is never followed by the throttling
\* delay.
C16_NoThrottleAfterFailure ==
  \A t \in DOMAIN run :
    KindsOf(run[t].waits) = WaitKinds(run[t], Len(run[t].calls), FALSE)

\* C16 amended: every generation call, successful or failed, is followed
\* by the throttling delay; a failed call that leaves retry budget is then
\* followed by the backoff sleep; the run waits at no other point.
C16_ThrottleAfterEveryCall ==
  \A t \in DOMAIN run :
    KindsOf(run[t].waits) = WaitKinds(run[t], Len(run[t].calls), TRUE)

C16_Witness ==
  \E t \in DOMAIN run :
    /\ run[t].pc = "restore"
    /\ run[t].broke
    /\ Len(run[t].calls) = 5
    /\ ~Succeeded(run[t], 1)
    /\ Succeeded(run[t], 2)
    /\ Len(CallsOf(run[t], 2)) = 2
    /\ KindsOf(run[t].waits) =
         <<"throttle", "backoff", "throttle", "backoff", "throttle",
           "throttle", "backoff", "throttle">>

\* the failed calls of r that leave retry budget, as attempt numbers, in
\* the order of the calls
RECURSIVE RetriedAttempts(_, _)
RetriedAttempts(r, n) ==
  IF n = 0 THEN <<>>
  ELSE RetriedAttempts(r, n - 1)
       \o (IF ~r.calls[n].ok /\ BudgetLeft(r, n) THEN <<AttemptNo(r, n)>> ELSE <<>>)

BackoffsOf(r) == SelectSeq(r.waits, LAMBDA w : w.kind = "backoff")

\* C17: the backoff sleeps of a run are, in order, those of its failed
\* attempts n <= max_retries, each of min(2^n, MAX_RETRY_WAIT) seconds; no
\* sleep exceeds MAX_RETRY_WAIT, the sleeps of one chunk do not decrease,
\* and the failed attempt that exhausts the budget is followed by no
\* backoff sleep.
C17_BackoffSchedule ==
  \A t \in DOMAIN run :
    LET r == run[t]
        b == BackoffsOf(r)
        a == RetriedAttempts(r, Len(r.calls))
    IN  /\ Len(b) = Len(a)
        /\ \A k \in 1..Len(b) :
             /\ b[k].ms = 1000 * (IF 2 ^ a[k] < MAX_RETRY_WAIT
                                  THEN 2 ^ a[k] ELSE MAX_RETRY_WAIT)
             /\ b[k].ms <= 1000 * MAX_RETRY_WAIT
             /\ (k > 1 /\ a[k] > a[k - 1]) => b[k].ms >= b[k - 1].ms
        /\ \A n \in 1..Len(r.calls) :
             (~r.calls[n].ok /\ AttemptNo(r, n) = DEFAULT_CHUNK_RETRIES + 1) =>
               Len(RetriedAttempts(r, n)) = Len(RetriedAttempts(r, n - 1))
        /\ (r.calls # <<>> /\ ~r.calls[Len(r.calls)].ok
              /\ AttemptNo(r, Len(r.calls)) = DEFAULT_CHUNK_RETRIES + 1
              /\ r.pc = "restore") =>
             r.waits[Len(r.waits)].kind = "throttle"

C17_Witness ==
  \E t \in DOMAIN run :
    /\ run[t].pc = "restore"
    /\ Len(run[t].calls) = DEFAULT_CHUNK_RETRIES + 1
    /\ \A n \in 1..Len(run[t].calls) : ~run[t].calls[n].ok
    /\ [k \in 1..Len(BackoffsOf(run[t])) |-> BackoffsOf(run[t])[k].ms] = <<2000, 4000>>
    /\ run[t].errors # <<>>

\* whether the loop of chunk k of run r has ended
ChunkEnded(r, k) == k < r.i \/ r.pc \in {"return", "done"}

OkCallsOf(r, k) == SelectSeq(CallsOf(r, k), LAMBDA c : c.ok)

\* C18: a chunk whose loop has ended has either one successful call, the
\* last of its calls, and no ledger entry, or no successful call and one
\* ledger entry; the ledger lists the exhausted chunks in chunk order with
\* chunk index, attempt count and message; the result list is the records
\* of the successful calls, each once.
C18_OneOutcomePerChunk ==
  \A t \in DOMAIN run :
    LET r == run[t]
    IN  /\ \A k \in 1..Len(r.chunks) :
             ChunkEnded(r, k) =>
               \/ /\ Len(OkCallsOf(r, k)) = 1
                  /\ CallsOf(r, k)[Len(CallsOf(r, k))].ok
                  /\ LedgerOf(r, k) = <<>>
               \/ /\ OkCallsOf(r, k) = <<>>
                  /\ Len(LedgerOf(r, k)) = 1
        /\ \A n \in 1..Len(r.errors) :
             /\ DOMAIN r.errors[n] = {"chunk", "attempt", "of", "message"}
             /\ r.errors[n].chunk \in 1..Len(r.chunks)
             /\ ~Succeeded(r, r.errors[n].chunk)
             /\ r.errors[n].attempt = Len(CallsOf(r, r.errors[n].chunk))
             /\ r.errors[n].message \in collab.errors
             /\ n > 1 => r.errors[n - 1].chunk < r.errors[n].chunk
        /\ r.all_qa = ConcatQa(SelectSeq(r.calls, LAMBDA c : c.ok))

C18_Witness ==
  \E t \in DOMAIN run :
    /\ run[t].pc = "done"
    /\ Len(run[t].chunks) = 3
    /\ ~Succeeded(run[t], 1) /\ Succeeded(run[t], 2) /\ ~Succeeded(run[t], 3)
    /\ Len(CallsOf(run[t], 2)) = 3
    /\ Len(run[t].errors) = 2
    /\ run[t].errors[1].chunk = 1 /\ run[t].errors[2].chunk = 3
    /\ run[t].all_qa # <<>>

\* C19: a successful call whose response parses to no record is the last
\* call of its chunk, its chunk gets no ledger entry, and the run goes on
\* with the next chunk (or returns after the last).
C19_EmptyParseIsSuccess ==
  \A t \in DOMAIN run :
    LET r == run[t]
    IN  \A n \in 1..Len(r.calls) :
          (r.calls[n].ok /\ r.calls[n].qa = <<>>) =>
            /\ \A m \in (n + 1)..Len(r.calls) : r.calls[m].chunk > r.calls[n].chunk
            /\ n < Len(r.calls) => r.calls[n + 1].chunk = r.calls[n].chunk + 1
            /\ LedgerOf(r, r.calls[n].chunk) = <<>>
            /\ (n = Len(r.calls) /\ r.pc = "restore") => r.broke
            /\ (n = Len(r.calls) /\ r.pc # "restore") =>
                 IF r.calls[n].chunk < Len(r.chunks)
                 THEN r.i = r.calls[n].chunk + 1
                 ELSE r.pc \in {"return", "done"}

C19_Witness ==
  \E t \in DOMAIN run :
    /\ run[t].pc = "done"
    /\ Len(run[t].chunks) = 3
    /\ Len(run[t].calls) = 3
    /\ run[t].calls[1].ok /\ run[t].calls[1].qa = <<>>
    /\ run[t].calls[2].chunk = 2 /\ run[t].calls[2].qa # <<>>
    /\ run[t].errors = <<>>
    /\ Len(run[t].all_qa) = 2

\* ------------------------------------------------ the max_chunks safety valve
\* whether the finished chunk_text call cut its windows up to the end of
\* the text (the loop ended by the break of line 176, or never started)
ChunkedCompletely == text = <<>> \/ ck.brk

\* C20 as stated: chunk_text returns at most max_chunks chunks; when it
\* stops at max_chunks with part of the text not yet cut the warning is
\* given; the warning is not given for a text that was chunked completely.
C20_WarningIffTruncated ==
  cpc = "done" =>
    /\ Len(ck.chunks) <= max_chunks
    /\ ~ChunkedCompletely => warned
    /\ ChunkedCompletely => ~warned

\* ------------------------------------------------- completion of a run
\* one caller whose every step is eventually taken: a generation call
\* returns or fails, a sleep ends
FairInit == RunInit({1}, RunDocs, RunArgs, ConcCollab)

\* a step of Next is possible exactly while some caller is inside its call
Running == \E t \in DOMAIN run : run[t].pc \notin {"done", "raised"}

\* weak fairness of Next, with its enabling condition written out
FairSpec == FairInit /\ [][Next]_vars /\ ([]<>(~Running) \/ []<><<Next>>_vars)

\* the chunks are attempted one at a time and in order: the chunk index of
\* the calls never decreases, it moves on by one, and only after a
\* successful call or after the chunk is entered in the ledger
CallsInOrder(r) ==
  /\ r.calls # <<>> => r.calls[1].chunk = 1
  /\ \A n \in 1..(Len(r.calls) - 1) :
       /\ r.calls[n + 1].chunk \in {r.calls[n].chunk, r.calls[n].chunk + 1}
       /\ r.calls[n].ok => r.calls[n + 1].chunk = r.calls[n].chunk + 1
       /\ r.calls[n + 1].chunk = r.calls[n].chunk + 1 =>
            (r.calls[n].ok \/ LedgerOf(r, r.calls[n].chunk) # <<>>)

\* C21: every chunked run eventually completes (it returns, or raises at
\* once for an empty document); its calls go through the chunks strictly
\* in order, a chunk being left only on success or exhaustion, and there
\* are at most number_of_chunks * (max_retries + 1) generation calls.
C21_RunCompletes ==
  /\ [](\A t \in DOMAIN run :
          /\ CallsInOrder(run[t])
          /\ Len(run[t].calls) <= Len(run[t].chunks) * (DEFAULT_CHUNK_RETRIES + 1)
          /\ run[t].pc = "raised" => loaded = <<>>
          /\ run[t].pc = "done" =>
               \A k \in 1..Len(run[t].chunks) :
                 Succeeded(run[t], k) \/ Len(LedgerOf(run[t], k)) = 1)
  /\ <>(\A t \in DOMAIN run : run[t].pc \in {"done", "raised"})

C21_Witness ==
  \E t \in DOMAIN run :
    /\ run[t].pc = "done"
    /\ Len(run[t].chunks) = 3
    /\ Len(run[t].calls) = 3 * (DEFAULT_CHUNK_RETRIES + 1)
    /\ Len(run[t].errors) = 3

\* ------------------------------- a reader beside a chunked request in flight
\* api.py lines 161-168: document_info up to its first read of the
\* session's text, bool(rag_instance.document_text)
ApiInfoLoaded(t) ==
  /\ run[t].pc = "request"
  /\ run[t].endpoint = "document-info"
  /\ IF rag_instance = "None"
     THEN Respond(t, [status |-> 500, error |-> "RAG system not initialized"])
     ELSE Set(t, [run[t] EXCEPT !.resp = [status |-> 0,
                                          document_loaded |-> document_text # <<>>],
                                !.pc = "info_length"])
  /\ UNCHANGED <<cvars, pvars, rag_instance, loaded, collab, document_text>>

\* api.py lines 164-172: the second read, len(rag_instance.document_text),
\* and the response
ApiInfoLength(t) ==
  /\ run[t].pc = "info_length"
  /\ Respond(t, [status |-> 200,
                 document_loaded |-> run[t].resp.document_loaded,
                 document_length |-> Len(document_text)])
  /\ UNCHANGED <<cvars, pvars, rag_instance, loaded, collab, document_text>>

\* thread 1 serves a valid chunked request, thread 2 a request that only
\* reads the session (app.py runs the server with threaded=True)
ReadInit ==
  /\ rag_instance = "SimpleRAG"
  /\ loaded \in ConcDocs
  /\ document_text = loaded
  /\ collab = ConcCollab
  /\ run \in [{1, 2} -> Requests \cup {NewRequest("document-info", MIN_QUESTIONS,
                                                  DEFAULT_CHUNK_SIZE, DEFAULT_OVERLAP)}]
  /\ run[1] = NewRequest("generate-qa-chunked", MIN_QUESTIONS, MIN_CHUNK_SIZE, 0)
  /\ run[2].endpoint \in {"document-info", "generate-qa"}
  /\ run[2].questions = MIN_QUESTIONS
  /\ ChunkIdle
  /\ ParseIdle

ReadNext ==
  \/ ApiNext
  \/ \E t \in DOMAIN run : ApiInfoLoaded(t)
  \/ \E t \in DOMAIN run : ApiInfoLength(t)

ReadSpec == ReadInit /\ [][ReadNext]_vars

\* C22 as stated: beside a chunked request in flight, /api/document-info
\* reports the length of the loaded document and /api/generate-qa builds
\* its prompt from the loaded document's text.
C22_ReadersSeeLoadedDocument ==
  \A t \in DOMAIN run :
    /\ (run[t].endpoint = "document-info" /\ run[t].pc = "responded") =>
         run[t].resp.document_length = Len(loaded)
    /\ run[t].endpoint = "generate-qa" =>
         \A n \in 1..Len(run[t].calls) :
           run[t].calls[n].doc = Prefix(loaded, PROMPT_DOC_CAP)

\* ------------------------------------- chunks beside the prompt's prefix cap
\* a document one character longer than the prefix generate_qa_pairs sends
LongDoc == [k \in 1..(PROMPT_DOC_CAP + 1) |-> "a"]

CapDocs == { <<" ", "a">>, LongDoc }

\* chunk sizes the endpoint accepts, at and beyond the prefix cap
CapRequests ==
  {NewRequest("generate-qa-chunked", MIN_QUESTIONS, cs, 0) :
     cs \in {PROMPT_DOC_CAP, PROMPT_DOC_CAP + 1, MAX_CHUNK_SIZE}}
  \cup {NewRequest("generate-qa", MIN_QUESTIONS, DEFAULT_CHUNK_SIZE, DEFAULT_OVERLAP)}

CapInit ==
  /\ rag_instance = "SimpleRAG"
  /\ loaded \in CapDocs
  /\ document_text = loaded
  /\ collab = ConcCollab
  /\ run \in [{1} -> CapRequests]
  /\ ChunkIdle
  /\ ParseIdle

CapSpec == CapInit /\ [][ApiNext]_vars

\* whether text s holds text c as a contiguous part
Contains(s, c) ==
  \E p \in 0..(Len(s) - Len(c)) : SubSeq(s, p + 1, p + Len(c)) = c

\* C23 as stated: for every accepted chunk_size, the prompt of each
\* generation call of a chunked request holds the complete text of the
\* chunk the call is made for.
C23_WholeChunkInPrompt ==
  \A t \in DOMAIN run :
    run[t].endpoint = "generate-qa-chunked" =>
      \A n \in 1..Len(run[t].calls) :
        Contains(run[t].calls[n].doc, run[t].chunks[run[t].calls[n].chunk])
====
